---- MODULE Spec2Model ----
(***************************************************************************)
(* A model of openssl_agent_all_unix_and_windows.py: the OpenSSLAgent run  *)
(* (decide_and_execute and every method it calls).                         *)
(*                                                                         *)
(* The host is the environment.  What shutil.which answers for a tool is   *)
(* drawn the first time the agent asks and remembered in present/absent,   *)
(* so that every later question about the same tool gets the same answer.  *)
(* Exit codes of external commands are drawn when the command runs.        *)
(* Every side effect the agent has on the world (an external command, a    *)
(* line handed to log_step, a snapshot file, a prompt, the report) is      *)
(* appended to trace in the order the code performs it.                    *)
(***************************************************************************)
EXTENDS Integers, Sequences, FiniteSets, TLC

(***************************************************************************)
(* Bounds of the model.                                                    *)
(***************************************************************************)
\* the most package managers detect_package_managers finds on a host of
\* which nothing is known
MaxPMs == 2
\* the most libraries the linkage listing of the application names
MaxLibs == 2
\* the most failures the host inflicts on one run: commands that exit with
\* another code than 0, file operations that raise, checks that do not pass
MaxFaults == 2
\* the most calls of prepare_backup on one backup directory
MaxBackups == 2

None == "None"

(***************************************************************************)
(* The host identities and the command line.                               *)
(***************************************************************************)
\* platform.system().lower() of the hosts of the model; freebsd stands for
\* every system the agent does not name
SystemNames == {"linux", "darwin", "windows", "aix", "hp-ux", "sunos", "freebsd"}

\* __init__, lines 68-80: every branch of the chain assigns the name it
\* tested, so the only rewrite is the 'hp-ux' in platform.platform() test
NormalizePlatform(system, hpuxInPlatformString) ==
    IF system = "sunos" THEN "sunos"
    ELSE IF system = "hp-ux" \/ hpuxInPlatformString THEN "hp-ux"
    ELSE IF system = "aix" THEN "aix"
    ELSE IF system = "darwin" THEN "darwin"
    ELSE system

\* the application paths of the model: none given, one that exists, one
\* that does not
ExistingApp == "/opt/app/bin/server"
MissingApp == "/no/such/app"
AppPaths == {None, ExistingApp, MissingApp}
PathExists(p) == p = ExistingApp

\* detect_package_managers, line 130: the probe order
PMOrder == << "apt", "dnf", "yum", "apk", "zypper", "brew", "pkg", "pkgutil",
              "swinstall", "pkgadd", "installp", "rpm", "dpkg", "choco", "winget" >>
PMSet == {PMOrder[i] : i \in 1..Len(PMOrder)}

\* decide_and_execute, line 574
FirstClassPMs == {"apt", "dnf", "yum", "apk", "zypper", "brew", "pkg"}

VARIABLES
    platform,     \* self.platform
    app_path,     \* args.app_path (None when not given)
    dry_run,      \* args.dry_run
    force,        \* args.force
    health_url,   \* args.health_url is given
    app_link,     \* decide_and_execute: app_link, << >> for None
    present,      \* tools shutil.which has found
    absent,       \* tools shutil.which has not found
    pc,           \* the position of the run
    trace,        \* the side effects of the run, in order
    pms,          \* decide_and_execute: pms
    strategy,     \* decide_and_execute: strategy['type']
    libs,         \* upgrade_application_dependencies: libs still to resolve
    packages,     \* upgrade_application_dependencies: packages
    owners,       \* what resolve_package_owner was given and returned, call by call
    globbed,      \* the host's library files the globs of prepare_backup match, in order
    backup_dir,   \* the names of the files in self.backup_dir
    saved,        \* what prepare_backup returned (None before)
    res,          \* the result of side_install_from_source (status None before)
    smoke,        \* what run_smoke_tests returned (status None before)
    side_install_bin,  \* run_smoke_tests: side_install_bin.exists() (None before)
    ret,          \* the value decide_and_execute returned (status None before)
    faults        \* the failures the host has inflicted on the run

\* the command line and the platform: set at construction
cli == << platform, app_path, dry_run, force, health_url >>
\* what the agent knows of the host's tools
which == << present, absent >>
\* the locals of upgrade_application_dependencies
deps == << libs, packages, owners >>

\* the backup: the host's library files, the backup directory, the result
bak == << globbed, backup_dir, saved >>

\* the locals of run_smoke_tests
smk == << smoke, side_install_bin >>

vars == << cli, app_link, which, deps, bak, pc, trace, pms, strategy, res, smk, ret, faults >>

(***************************************************************************)
(* Events of the trace.                                                    *)
(***************************************************************************)
\* The exit codes of the model: 0, 1 for every exit code a started process
\* gives other than 0, and run_cmd's 255 for a command that did not start.
ExitCodes == {0, 1}
NotStarted == 255

\* run_cmd(c + a) was called: c the command, a the package names given to it
RunArgs(c, a) == [k |-> "run", c |-> c, a |-> a]
Run(c)  == RunArgs(c, << >>)
\* log_step(entry) was called, entry['cmd'] = c
LogArgs(c, a) == [k |-> "log", c |-> c, a |-> a]
Log(c)  == LogArgs(c, << >>)
\* log_step(entry) was called with an entry the agent wrote itself:
\* entry['cmd'] = c, entry['exit'] = exit
LogExit(c, exit) == [k |-> "log", c |-> c, a |-> << >>, exit |-> exit]
\* log_snapshot_file wrote the file name of the directory when
Snap(when, name) == [k |-> "snap", c |-> when \o "/" \o name, a |-> << >>]
\* confirm_upgrade asked and got the answer "y" (accepted) or another (declined)
Ask(accepted) == [k |-> "ask", c |-> IF accepted THEN "accepted" ELSE "declined", a |-> << >>]
\* generate_readme wrote the report
Readme == [k |-> "readme", c |-> "README.md", a |-> << >>]
\* tempfile.mkdtemp made the working directory
Mkdtemp == [k |-> "disk", c |-> "mkdtemp", a |-> << >>]
\* urllib.request.urlopen(url) was called
Urlopen == [k |-> "net", c |-> "urlopen", a |-> << >>]
\* shutil.copy2 copied a file to the name dest of the backup directory
Copy(dest) == [k |-> "copy", c |-> dest, a |-> << >>]

\* the file was opened for writing
FileWrite(path) == [k |-> "disk", c |-> path, a |-> << >>]

\* r = run_cmd(c); self.log_step(r)
RunLogged(c) == << Run(c), Log(c) >>

(***************************************************************************)
(* shutil.which                                                            *)
(***************************************************************************)
Known == present \cup absent

\* the agent asks for the tools of Q; found are those of them it finds that
\* it had not asked for before
Probe(Q, found) ==
    /\ found \subseteq (Q \ Known)
    /\ present' = present \cup found
    /\ absent' = absent \cup (Q \ (present \cup found))

Has(t) == t \in present'

\* the host inflicts n more failures
Inflict(n) == faults + n <= MaxFaults /\ faults' = faults + n
\* 1 for a failure, 0 otherwise
Bad(failed) == IF failed THEN 1 ELSE 0

\* every tool the agent asks shutil.which for
AllTools ==
    PMSet \cup {"openssl", "curl", "ldd", "otool", "dump", "chatr", "dumpbin",
                "pkgchk", "make", "gmake", "perl", "gcc", "cc", "clang", "cl",
                "ldconfig"}

\* The hosts of whole runs: a system and the tools installed on it.
Hosts == {
    [system |-> "linux",
     tools |-> {"openssl", "apt", "dpkg", "ldd", "make", "perl", "gcc", "curl", "ldconfig"}],
    [system |-> "linux",
     tools |-> {"openssl", "dnf", "yum", "rpm", "ldd", "make", "perl", "gcc", "curl"}],
    [system |-> "linux",
     tools |-> {"openssl", "apt", "dpkg", "rpm", "ldd", "make", "perl", "gcc", "curl"}],
    [system |-> "linux",
     tools |-> {"openssl", "apk", "ldd", "make", "perl", "gcc"}],
    [system |-> "linux",
     tools |-> {"openssl", "zypper", "rpm", "ldd", "make", "perl", "gcc", "ldconfig"}],
    [system |-> "linux", tools |-> {"ldd", "gmake", "perl", "cc", "curl"}],
    [system |-> "linux", tools |-> {}],
    [system |-> "darwin",
     tools |-> {"openssl", "brew", "otool", "make", "perl", "clang", "curl"}],
    [system |-> "sunos",
     tools |-> {"openssl", "pkg", "ldd", "gmake", "make", "perl", "cc"}],
    [system |-> "aix",
     tools |-> {"openssl", "yum", "rpm", "installp", "ldd", "dump", "make", "perl", "cc"}],
    [system |-> "hp-ux", tools |-> {"swinstall", "chatr", "make", "perl", "cc"}],
    [system |-> "windows", tools |-> {"choco", "winget", "dumpbin", "perl", "cl"}],
    [system |-> "freebsd", tools |-> {"openssl", "pkg", "make", "perl", "clang", "curl"}] }

\* the locals and results of a run that has done nothing yet
Fresh ==
    /\ app_link = << >>
    /\ trace = << >>
    /\ pms = << >>
    /\ strategy = None
    /\ libs = << >>
    /\ packages = {}
    /\ owners = << >>
    /\ backup_dir = {}
    /\ saved = None
    /\ res = [status |-> None, steps |-> << >>, prefix |-> None]
    /\ smoke = [status |-> None, checks |-> << >>]
    /\ side_install_bin = None
    /\ ret = [status |-> None, success |-> None]
    /\ faults = 0

\* __init__, lines 66-93, on one of Hosts, with any command line
Init ==
    /\ \E h \in Hosts :
         /\ platform = NormalizePlatform(h.system, h.system = "hp-ux")
         /\ present = h.tools
         /\ absent = AllTools \ h.tools
    /\ app_path \in AppPaths
    /\ dry_run \in BOOLEAN
    /\ force \in BOOLEAN
    /\ health_url \in BOOLEAN
    /\ pc = "start"
    /\ globbed = << >>
    /\ Fresh

\* a dry run without --app-path on any host with at most MaxPMs package
\* managers: nothing is known of the host's tools yet
InitStrategy ==
    /\ \E s \in SystemNames : platform = NormalizePlatform(s, s = "hp-ux")
    /\ app_path = None
    /\ dry_run = TRUE
    /\ force \in BOOLEAN
    /\ health_url \in BOOLEAN
    /\ present = {}
    /\ absent = {}
    /\ pc = "start"
    /\ globbed = << >>
    /\ Fresh

\* side_install_from_source is called on any host
InitSide ==
    /\ \E s \in SystemNames : platform = NormalizePlatform(s, s = "hp-ux")
    /\ app_path = None
    /\ dry_run = FALSE
    /\ force \in BOOLEAN
    /\ health_url = FALSE
    /\ present = {}
    /\ absent = {}
    /\ pc = "side_install"
    /\ globbed = << >>
    /\ Fresh

\* The library files of the hosts on which prepare_backup is followed, in
\* the order the patterns of line 203 list them: two of them have the same
\* file name.
LibFiles == << [path |-> "/usr/lib/libssl.so.3", name |-> "libssl.so.3"],
               [path |-> "/usr/local/lib/libssl.so.3", name |-> "libssl.so.3"],
               [path |-> "/usr/lib/libcrypto.so.3", name |-> "libcrypto.so.3"] >>

\* the files of LibFiles that are in S, in the order of LibFiles
RECURSIVE Globbed(_, _)
Globbed(files, S) ==
    IF files = << >> THEN << >>
    ELSE (IF Head(files) \in S THEN << Head(files) >> ELSE << >>) \o Globbed(Tail(files), S)

\* detect_application_linking is called on any host, with any command line
\* that gives an application
InitLinking ==
    /\ \E s \in SystemNames : platform = NormalizePlatform(s, s = "hp-ux")
    /\ app_path \in {ExistingApp, MissingApp}
    /\ dry_run \in BOOLEAN
    /\ force \in BOOLEAN
    /\ health_url \in BOOLEAN
    /\ present = {}
    /\ absent = {}
    /\ pc = "app_link"
    /\ globbed = << >>
    /\ Fresh

\* upgrade_application_dependencies is called on any host, for the
\* application that is there
InitDeps ==
    /\ \E s \in SystemNames : platform = NormalizePlatform(s, s = "hp-ux")
    /\ app_path = ExistingApp
    /\ dry_run = FALSE
    /\ force \in BOOLEAN
    /\ health_url = FALSE
    /\ present = {}
    /\ absent = {}
    /\ pc = "deps"
    /\ globbed = << >>
    /\ Fresh

\* prepare_backup is called on any host, with any of the library files
InitBackup ==
    /\ \E s \in SystemNames : platform = NormalizePlatform(s, s = "hp-ux")
    /\ app_path = None
    /\ dry_run = FALSE
    /\ force = FALSE
    /\ health_url = FALSE
    /\ present = {}
    /\ absent = {}
    /\ pc = "backup"
    /\ Fresh
    /\ \E S \in SUBSET {LibFiles[i] : i \in 1..Len(LibFiles)} :
          globbed = Globbed(LibFiles, S)

\* run_smoke_tests is called on any host
InitSmoke ==
    /\ \E s \in SystemNames : platform = NormalizePlatform(s, s = "hp-ux")
    /\ app_path \in AppPaths
    /\ dry_run = FALSE
    /\ force \in BOOLEAN
    /\ health_url \in BOOLEAN
    /\ present = {}
    /\ absent = {}
    /\ pc = "smoke"
    /\ globbed = << >>
    /\ Fresh

\* decide_and_execute, line 555
Start ==
    /\ pc = "start"
    /\ trace' = Append(trace, Log("decide_and_execute"))
    /\ pc' = "detect_cli"
    /\ UNCHANGED << cli, app_link, which, deps, bak, pms, strategy, res, smk, ret, faults >>

(***************************************************************************)
(* Detection                                                               *)
(***************************************************************************)
\* detect_openssl_cli, lines 116-126: what it does given shutil.which('openssl')
DetectOpensslCliEffects(hasOpenssl) ==
    IF hasOpenssl
    THEN RunLogged("openssl version -a") \o << Snap("pre", "openssl-version.txt") >>
    ELSE << Log("openssl not found") >>

\* where decide_and_execute goes on after detect_openssl_cli (558, 628-630)
AfterDetectCli ==
    IF pc = "detect_cli" THEN "detect_pms"
    ELSE IF app_path # None THEN "post_link" ELSE "smoke"

DetectOpensslCli ==
    /\ pc \in {"detect_cli", "post_cli"}
    /\ \E found \in SUBSET ({"openssl"} \ Known) :
         /\ Probe({"openssl"}, found)
         /\ trace' = trace \o DetectOpensslCliEffects(Has("openssl"))
    /\ pc' = AfterDetectCli
    /\ UNCHANGED << cli, app_link, deps, bak, pms, strategy, res, smk, ret, faults >>

\* detect_package_managers, lines 129-132: the managers found, in probe order
DetectedPMs(installed) ==
    LET found(p) == p \in installed IN SelectSeq(PMOrder, found)

DetectPackageManagers ==
    /\ pc = "detect_pms"
    /\ \E found \in SUBSET (PMSet \ Known) :
         /\ Cardinality(found) <= MaxPMs
         /\ Probe(PMSet, found)
    /\ pms' = DetectedPMs(present')
    /\ trace' = Append(trace, Log("detected"))
    /\ pc' = IF app_path # None THEN "app_link" ELSE "backup"
    /\ UNCHANGED << cli, app_link, deps, bak, strategy, res, smk, ret, faults >>

PosixFamilies == {"linux", "darwin", "sunos", "aix", "hp-ux"}

\* detect_application_linking, lines 145-169: the tools it asks for, ldd
\* first and the family's own tool only when ldd is not there
LinkingProbes(hasLdd) ==
    IF platform \notin PosixFamilies THEN {}
    ELSE IF hasLdd THEN {"ldd"}
    ELSE IF platform = "darwin" THEN {"ldd", "otool"}
    ELSE IF platform = "aix" THEN {"ldd", "dump"}
    ELSE IF platform = "hp-ux" THEN {"ldd", "chatr"}
    ELSE {"ldd"}

\* the sentinels of detect_application_linking: the application is not
\* there (line 140), no tool to inspect it with (line 181)
NotFound == 254
NoLinkingTool == 253

\* what detect_application_linking does and returns: events in the trace,
\* and the entry returned
Linking(events, cmd, exit) == [events |-> events, entry |-> [cmd |-> cmd, exit |-> exit]]

\* lines 144-183: the inspection with the tool of the platform, exit the
\* exit code of the tool
InspectApplication(tools, exit) ==
    LET has(t) == t \in tools
        inspect(cmd, file) == Linking(RunLogged(cmd) \o << Snap("pre", file) >>, cmd, exit)
    IN
    IF platform \in PosixFamilies /\ has("ldd") THEN inspect("ldd", "ldd-app.txt")
    ELSE IF platform = "darwin" /\ has("otool") THEN inspect("otool -L", "otool-app.txt")
    ELSE IF platform = "aix" /\ has("dump") THEN inspect("dump -H", "dump-app.txt")
    ELSE IF platform = "hp-ux" /\ has("chatr") THEN inspect("chatr", "chatr-app.txt")
    ELSE IF platform = "windows" THEN inspect("powershell", "windows-app-info.txt")
    ELSE Linking(<< Log("no-linking-tool-found") >>, "no-linking-tool-found", NoLinkingTool)

\* DetectApplicationLinkingEffects as it would be without the test of
\* lines 139-142
DetectApplicationLinkingUnchecked(exists, tools, exit) ==
    InspectApplication(tools, exit)

\* detect_application_linking, lines 137-183
DetectApplicationLinkingEffects(exists, tools, exit) ==
    IF ~exists THEN Linking(<< Log("app not found") >>, "app not found", NotFound)
    ELSE InspectApplication(tools, exit)

\* the call of line 564, whose result is app_link, and the call of line 629,
\* whose result is not used
DetectApplicationLinking ==
    /\ pc \in {"app_link", "post_link"}
    /\ \E found \in SUBSET ({"ldd", "otool", "dump", "chatr"} \ Known),
          exit \in ExitCodes \cup {NotStarted} :
         LET asked == IF PathExists(app_path)
                      THEN LinkingProbes("ldd" \in present \cup found)
                      ELSE {}
             did == DetectApplicationLinkingEffects(PathExists(app_path),
                                                    present \cup found, exit)
         IN /\ found \subseteq asked
            /\ Probe(asked, found)
            \* the exit code of a tool that is not run, or whose result is
            \* not used, is no input; powershell is run without asking
            \* whether it is there
            /\ (did.entry.exit # exit \/ pc = "post_link") => exit = 0
            /\ exit = NotStarted => platform = "windows"
            /\ Inflict(Bad(exit # 0))
            /\ trace' = trace \o did.events
            /\ app_link' = IF pc = "app_link" THEN << did.entry >> ELSE app_link
    /\ pc' = IF pc = "app_link" THEN "deps" ELSE "smoke"
    /\ UNCHANGED << cli, deps, bak, pms, strategy, res, smk, ret >>

(***************************************************************************)
(* Dependency management                                                   *)
(***************************************************************************)
\* The libraries a linkage listing of the application can name: the path,
\* its '/'-separated parts, and the package the host's package database
\* gives as its owner.
LibZ == [path |-> "/usr/lib/libz.so.1",
         parts |-> << "", "usr", "lib", "libz.so.1" >>,
         dbowner |-> "zlib1g"]
LibSSL == [path |-> "/usr/lib/libssl.so.3",
           parts |-> << "", "usr", "lib", "libssl.so.3" >>,
           dbowner |-> "libssl3"]
LibCellarZ == [path |-> "/usr/local/Cellar/zlib/1.3/lib/libz.dylib",
               parts |-> << "", "usr", "local", "Cellar", "zlib", "1.3", "lib", "libz.dylib" >>,
               dbowner |-> "zlib"]
LibCellarSSL == [path |-> "/usr/local/Cellar/openssl@3/3.0.8/lib/libssl.dylib",
                 parts |-> << "", "usr", "local", "Cellar", "openssl@3", "3.0.8", "lib", "libssl.dylib" >>,
                 dbowner |-> "openssl@3"]
\* 'Cellar' occurs in the path and is no component of it
LibOddCellar == [path |-> "/opt/MyCellar/lib/libz.dylib",
                 parts |-> << "", "opt", "MyCellar", "lib", "libz.dylib" >>,
                 dbowner |-> "zlib"]
LinkedLibs == {LibZ, LibSSL, LibCellarZ, LibCellarSSL, LibOddCellar}

\* the listings of the model: at most MaxLibs libraries
RECURSIVE SeqsUpTo(_, _)
SeqsUpTo(S, n) ==
    IF n = 0 THEN {<< >>}
    ELSE LET shorter == SeqsUpTo(S, n - 1)
         IN shorter \cup {Append(q, x) : q \in shorter, x \in S}
Listings == SeqsUpTo(LinkedLibs, MaxLibs)

\* the package names of the model in sorted() order
SortedNames == << "libssl3", "openssl@3", "zlib", "zlib1g" >>

\* the characters of the package names and of openssl_terms
Chars(str) ==
    CASE str = "libssl3" -> << "l", "i", "b", "s", "s", "l", "3" >>
      [] str = "openssl@3" -> << "o", "p", "e", "n", "s", "s", "l", "@", "3" >>
      [] str = "zlib" -> << "z", "l", "i", "b" >>
      [] str = "zlib1g" -> << "z", "l", "i", "b", "1", "g" >>
      [] str = "openssl" -> << "o", "p", "e", "n", "s", "s", "l" >>
      [] str = "libssl" -> << "l", "i", "b", "s", "s", "l" >>
      [] str = "libcrypto" -> << "l", "i", "b", "c", "r", "y", "p", "t", "o" >>

\* x in p, for strings: x occurs in p at some offset
Occurs(x, p) ==
    \E k \in 0..(Len(p) - Len(x)) : \A j \in 1..Len(x) : p[k + j] = x[j]

\* line 490
OpenSSLTerms == {"openssl", "libssl", "libcrypto"}

\* line 491: any(x in p for x in openssl_terms), for the names of the model
NamesWithOpenSSLTerm ==
    {SortedNames[i] : i \in {n \in 1..Len(SortedNames) :
        \E x \in OpenSSLTerms : Occurs(Chars(x), Chars(SortedNames[n]))}}

\* parts.index(x), 0 for ValueError
IndexOf(parts, x) ==
    IF \E i \in 1..Len(parts) : parts[i] = x
    THEN CHOOSE i \in 1..Len(parts) :
            parts[i] = x /\ \A j \in 1..(i - 1) : parts[j] # x
    ELSE 0

\* upgrade_application_dependencies, lines 431-480: the tool whose listing
\* is run (None: no listing), asked for with shutil.which only on aix,
\* hp-ux and windows
ListingTool ==
    CASE platform \in {"linux", "sunos"} -> "ldd"
      [] platform = "darwin" -> "otool"
      [] platform = "aix" -> "ldd"
      [] platform = "hp-ux" -> "chatr"
      [] platform = "windows" -> "dumpbin"
      [] OTHER -> None
ListingCmd ==
    CASE platform \in {"linux", "sunos", "aix"} -> "ldd"
      [] platform = "darwin" -> "otool -L"
      [] platform = "hp-ux" -> "chatr"
      [] platform = "windows" -> "dumpbin /DEPENDENTS"
      [] OTHER -> None
\* the families whose listing is parsed into libs
ParsedFamilies == {"linux", "sunos", "darwin", "aix"}
\* the families that run the listing tool without asking for it first
UnguardedFamilies == {"linux", "sunos", "darwin"}

\* lines 425-480: log the step, run the listing, parse it.  listing is what
\* the tool prints for the application when it is there and exits with 0.
IdentifyLibraries ==
    /\ pc = "deps"
    /\ \E found \in SUBSET ({"ldd", "otool", "chatr", "dumpbin"} \ Known),
          ok \in BOOLEAN, listing \in Listings :
         LET asked == IF ListingTool = None THEN {} ELSE {ListingTool}
             there == ListingTool \in present \cup found
             ran == /\ ListingTool # None
                    /\ there \/ platform \in UnguardedFamilies
             good == ran /\ there /\ ok /\ PathExists(app_path)
         IN /\ found \subseteq asked
            /\ Probe(asked, found)
            /\ ~(ran /\ there /\ PathExists(app_path)) => ~ok
            /\ Inflict(Bad(ran /\ there /\ PathExists(app_path) /\ ~ok))
            /\ ~(good /\ platform \in ParsedFamilies) => listing = << >>
            /\ libs' = listing
            /\ trace' = trace \o << Log("checking-dependencies") >>
                              \o (IF ran THEN << Run(ListingCmd) >> ELSE << >>)
    /\ packages' = {}
    /\ owners' = << >>
    /\ pc' = "deps_resolve"
    /\ UNCHANGED << cli, app_link, bak, pms, strategy, res, smk, ret >>

\* resolve_package_owner, lines 366-421, for the library lib on a host with
\* the tools of tools, r the result of the database lookup it runs
\* answers: the tools it asks for, the commands it runs, the owner it returns
\* what the lookup command gives: the owner in the format of the tool
\* (Owned), no output with exit code 0 or another, nothing when it did not
\* start
Owned == [exit |-> 0, stdout |-> "owner"]
Lookups ==
    {Owned, [exit |-> 0, stdout |-> ""], [exit |-> 1, stdout |-> ""],
     [exit |-> NotStarted, stdout |-> ""]}

ResolveProbes(tools) ==
    CASE platform = "linux" -> IF "dpkg" \in tools THEN {"dpkg"} ELSE {"dpkg", "rpm"}
      [] platform = "sunos" -> IF "pkg" \in tools THEN {"pkg"} ELSE {"pkg", "pkgchk"}
      [] OTHER -> {}

ResolveCmds(tools) ==
    CASE platform = "linux" ->
            IF "dpkg" \in tools THEN << Run("dpkg -S") >>
            ELSE IF "rpm" \in tools THEN << Run("rpm -qf") >>
            ELSE << >>
      [] platform = "aix" -> << Run("lslpp -w") >>
      [] platform = "sunos" ->
            IF "pkg" \in tools THEN << Run("pkg search") >>
            ELSE IF "pkgchk" \in tools THEN << Run("pkgchk -l -p") >>
            ELSE << >>
      [] OTHER -> << >>

ResolvePackageOwner(lib, tools, r) ==
    LET answer == IF r.stdout = "owner" THEN lib.dbowner ELSE r.stdout
    IN
    CASE platform = "linux" ->
            IF "dpkg" \in tools
            \* r['exit'] == 0 and ':' in r['stdout']
            THEN (IF r.exit = 0 /\ r.stdout = "owner" THEN answer ELSE None)
            ELSE IF "rpm" \in tools
            \* r['exit'] == 0: whatever the output is
            THEN (IF r.exit = 0 THEN answer ELSE None)
            ELSE None
      [] platform = "darwin" ->
            LET idx == IndexOf(lib.parts, "Cellar")
            IN IF idx > 0 /\ idx + 1 <= Len(lib.parts) THEN lib.parts[idx + 1] ELSE None
      \* a line of the output that names the path and has two fields
      [] platform = "aix" -> IF r.stdout = "owner" THEN answer ELSE None
      [] platform = "sunos" ->
            IF "pkg" \in tools
            \* r['exit'] == 0 and r['stdout'].strip()
            THEN (IF r.exit = 0 /\ r.stdout # "" THEN answer ELSE None)
            ELSE None
      [] platform = "windows" ->
            LET idx == IndexOf(lib.parts, "lib")
            IN IF /\ \E i \in 1..Len(lib.parts) : lib.parts[i] = "chocolatey"
                  /\ idx > 0 /\ idx + 1 <= Len(lib.parts)
               THEN lib.parts[idx + 1] ELSE None
      [] OTHER -> None

\* lines 483-487: one turn of the loop over libs
ResolveNextLibrary ==
    /\ pc = "deps_resolve"
    /\ libs # << >>
    /\ \E found \in SUBSET ({"dpkg", "rpm", "pkg", "pkgchk"} \ Known), r \in Lookups :
         LET asked == ResolveProbes(present \cup found)
             pkg == ResolvePackageOwner(Head(libs), present \cup found, r)
             ran == ResolveCmds(present \cup found) # << >>
         IN /\ found \subseteq asked
            /\ Probe(asked, found)
            \* the result of a lookup that is not run is no input
            /\ ~ran => r = Owned
            \* lslpp is run without asking whether it is there
            /\ r.exit = NotStarted => platform = "aix"
            /\ Inflict(Bad(r # Owned))
            /\ trace' = trace \o ResolveCmds(present')
            \* if pkg: packages.add(pkg)
            /\ packages' = IF pkg \notin {None, ""} THEN packages \cup {pkg} ELSE packages
            /\ owners' = Append(owners, [lib |-> Head(libs), ran |-> ran,
                                          lookup |-> r, owner |-> pkg])
    /\ libs' = Tail(libs)
    /\ UNCHANGED << cli, app_link, bak, pc, pms, strategy, res, smk, ret >>

\* PackagesToUpgrade as it would be without the filter of line 491
PackagesToUpgradeUnfiltered(pkgs) ==
    LET kept(p) == p \in pkgs
    IN SelectSeq(SortedNames, kept)

\* lines 490-491
PackagesToUpgrade(pkgs) ==
    LET kept(p) == p \in pkgs /\ p \notin NamesWithOpenSSLTerm
    IN SelectSeq(SortedNames, kept)

\* confirm_upgrade, lines 538-551: the events and the answer, reply being
\* what the operator types ("y" after strip and lower, or anything else, or
\* end of input)
ConfirmEvents(accepts) == IF force THEN << >> ELSE << Ask(accepts) >>
\* ConfirmUpgrade as it would be if any answer were taken as consent
ConfirmUpgradeAnyAnswer(accepts) == TRUE
\* lines 543-551: the value confirm_upgrade returns
ConfirmUpgrade(accepts) == force \/ accepts

\* lines 500-533: the upgrade command of the platform, None when the
\* platform's package manager is not there
DepUpgradeCmd(tools) ==
    CASE platform = "linux" ->
            IF "apt" \in tools THEN "apt install --only-upgrade"
            ELSE IF "yum" \in tools THEN "yum update"
            ELSE IF "dnf" \in tools THEN "dnf update"
            ELSE IF "apk" \in tools THEN "apk add --upgrade"
            ELSE None
      [] platform = "darwin" -> IF "brew" \in tools THEN "brew upgrade" ELSE None
      [] platform = "windows" -> IF "choco" \in tools THEN "choco upgrade" ELSE None
      [] platform = "sunos" -> IF "pkg" \in tools THEN "pkg update" ELSE None
      [] platform = "aix" -> IF "yum" \in tools THEN "yum update" ELSE None
      [] OTHER -> None

DepUpgradeProbes ==
    CASE platform = "linux" -> {"apt", "yum", "dnf", "apk"}
      [] platform = "darwin" -> {"brew"}
      [] platform = "windows" -> {"choco"}
      [] platform = "sunos" -> {"pkg"}
      [] platform = "aix" -> {"yum"}
      [] OTHER -> {}

\* lines 489-535: filter, confirm, upgrade, return to decide_and_execute
ConfirmAndUpgradeDependencies ==
    /\ pc = "deps_resolve"
    /\ libs = << >>
    /\ LET todo == PackagesToUpgrade(packages)
       IN IF todo = << >>
          THEN UNCHANGED << trace, which >>
          ELSE \E accepts \in BOOLEAN, found \in SUBSET (DepUpgradeProbes \ Known) :
                 LET go == ConfirmUpgrade(accepts)
                     asked == IF go THEN DepUpgradeProbes ELSE {}
                     cmd == DepUpgradeCmd(present \cup found)
                 IN /\ force => accepts
                    /\ found \subseteq asked
                    /\ Probe(asked, found)
                    /\ trace' = trace \o ConfirmEvents(accepts)
                                      \o (IF go /\ cmd # None
                                          THEN << RunArgs(cmd, todo), LogArgs(cmd, todo) >>
                                          ELSE << >>)
    \* the record of the calls of resolve_package_owner ends with the method
    /\ owners' = << >>
    /\ pc' = "backup"
    /\ UNCHANGED << cli, app_link, bak, libs, packages, pms, strategy, res, smk, ret, faults >>

(***************************************************************************)
(* Backup                                                                  *)
(***************************************************************************)
\* prepare_backup, lines 205-219: the loop over the matched library files.
\* have is the directory before the file, fails the files whose copy2
\* raises; the result is the directory and the saved list after the loop.
RECURSIVE CopyLibraries(_, _, _, _)
CopyLibraries(files, have, kept, fails) ==
    IF files = << >> THEN [dir |-> have, saved |-> kept]
    ELSE LET f == Head(files)
             dest == "lib_" \o f.name
         IN IF dest \in have \/ f \in fails
            THEN CopyLibraries(Tail(files), have, kept, fails)
            ELSE CopyLibraries(Tail(files), have \cup {dest}, Append(kept, dest), fails)

\* lines 190-196: the copy of the openssl binary and its checksum sidecar
CopyOpensslBinary(hasOpenssl) ==
    IF hasOpenssl THEN {"openssl_binary", "openssl_binary.sha256"} ELSE {}

\* ArchiveEvents as it would be if a failed archive were logged with exit 0
ArchiveEventsExitZero(tarOK) ==
    IF tarOK THEN << LogExit("created tarball", 0) >> ELSE << LogExit("tar-failed", 0) >>

\* lines 222-229: the log entry of the archive step
ArchiveEvents(tarOK) ==
    IF tarOK THEN << LogExit("created tarball", 0) >> ELSE << LogExit("tar-failed", 1) >>

\* prepare_backup, lines 186-231.  copy2 of the openssl binary is outside
\* every try: when it raises, the exception leaves decide_and_execute.
PrepareBackup ==
    /\ pc = "backup"
    /\ \E found \in SUBSET ({"openssl"} \ Known), copyOK \in BOOLEAN,
          tarOK \in BOOLEAN, fails \in SUBSET {globbed[i] : i \in 1..Len(globbed)} :
         /\ Probe({"openssl"}, found)
         /\ ~Has("openssl") => copyOK
         /\ Inflict(Bad(~copyOK) + Bad(~tarOK) + Cardinality(fails))
         /\ IF ~copyOK
            THEN /\ fails = {} /\ tarOK
                 /\ pc' = "crashed"
                 /\ UNCHANGED << backup_dir, saved, trace >>
            ELSE LET first == backup_dir \cup CopyOpensslBinary(Has("openssl"))
                     libcopy == CopyLibraries(globbed, first, << >>, fails)
                 IN /\ backup_dir' = libcopy.dir
                    /\ saved' = (IF Has("openssl") THEN << "openssl_binary" >> ELSE << >>)
                                   \o libcopy.saved
                    /\ trace' = trace \o [i \in 1..Len(saved') |-> Copy(saved'[i])]
                                      \o ArchiveEvents(tarOK)
                    /\ pc' = "strategy"
    /\ UNCHANGED << cli, app_link, deps, globbed, pms, strategy, res, smk, ret >>

(***************************************************************************)
(* Strategy, dry run, upgrade                                              *)
(***************************************************************************)
\* StrategyType as it would be if every detected manager counted, first-class
\* or not
StrategyTypeAnyManager(detected) ==
    IF detected # << >> THEN "package-manager" ELSE "side-install"

\* decide_and_execute, lines 572-580: strategy['type']
StrategyType(detected) ==
    IF \E i \in 1..Len(detected) : detected[i] \in FirstClassPMs
    THEN "package-manager"
    ELSE "side-install"

\* decide_and_execute, lines 571-582
ChooseStrategy ==
    /\ pc = "strategy"
    /\ strategy' = StrategyType(pms)
    /\ trace' = Append(trace, Log("chosen"))
    /\ pc' = "dry_run"
    /\ UNCHANGED << cli, app_link, which, deps, bak, pms, res, smk, ret, faults >>

\* generate_readme, lines 695-724
GenerateReadme == << Readme, Log("write README.md") >>

\* the values decide_and_execute returns (588, 596, 636); a dry run's has
\* no 'success' key
Returned(status, success) == [status |-> status, success |-> success]

\* decide_and_execute, lines 584-588
DryRunHandling ==
    /\ pc = "dry_run"
    /\ IF dry_run
       THEN /\ trace' = trace \o << Log("planned-actions") >> \o GenerateReadme
            /\ ret' = Returned("dry-run", None)
            /\ pc' = "returned"
       ELSE /\ pc' = "upgrade"
            /\ UNCHANGED << trace, ret >>
    /\ UNCHANGED << cli, app_link, which, deps, bak, pms, strategy, res, smk, faults >>

\* lines 594-614: the commands of the package manager pm, << >> when the
\* stage builds from source instead (615-619, 621-624)
PackageManagerCmds(pm) ==
    CASE pm = "apt" -> << "apt update", "apt install --only-upgrade openssl libssl-dev" >>
      [] pm = "dnf" -> << "dnf makecache", "dnf update openssl" >>
      [] pm = "yum" -> << "yum makecache", "yum update openssl" >>
      [] pm = "apk" -> << "apk update", "apk add --upgrade openssl" >>
      [] pm = "brew" -> << "brew update", "brew upgrade openssl" >>
      [] OTHER -> << >>

UpgradeCmds(kind, detected) ==
    IF kind = "package-manager" THEN PackageManagerCmds(detected[1]) ELSE << >>

RECURSIVE RunLoggedAll(_)
RunLoggedAll(cmds) ==
    IF cmds = << >> THEN << >> ELSE RunLogged(Head(cmds)) \o RunLoggedAll(Tail(cmds))

\* decide_and_execute, lines 590-625, up to the call of
\* side_install_from_source
PerformUpgrade ==
    /\ pc = "upgrade"
    /\ \E accepts \in BOOLEAN :
         LET cmds == UpgradeCmds(strategy, pms)
         IN /\ force => accepts
            /\ IF ~ConfirmUpgrade(accepts)
               THEN /\ trace' = trace \o ConfirmEvents(accepts)
                    /\ ret' = Returned("aborted", FALSE)
                    /\ pc' = "returned"
               ELSE /\ trace' = trace \o ConfirmEvents(accepts) \o RunLoggedAll(cmds)
                    /\ ret' = ret
                    /\ pc' = IF cmds = << >> THEN "side_install" ELSE "post_cli"
    /\ UNCHANGED << cli, app_link, which, deps, bak, pms, strategy, res, smk, faults >>

(***************************************************************************)
(* Side-install from source                                                *)
(***************************************************************************)

\* an entry of result['steps']: ran tells a CommandResult of run_cmd from
\* an entry the pipeline writes itself
Step(cmd, exit, ran) == [cmd |-> cmd, exit |-> exit, ran |-> ran]

\* result['steps'].append(entry); self.log_step(entry), after run_cmd when
\* the entry is a CommandResult, after urlopen when it is the entry of the
\* download by urllib (lines 279-287)
RECURSIVE StepEvents(_)
StepEvents(steps) ==
    IF steps = << >> THEN << >>
    ELSE LET st == Head(steps)
         IN (IF st.ran THEN << Run(st.cmd) >>
             ELSE IF st.cmd \in {"urllib-download", "download-failed"} THEN << Urlopen >>
             ELSE << >>)
               \o << Log(st.cmd) >> \o StepEvents(Tail(steps))

\* the failures among steps: the entries with an exit code of 1
RECURSIVE FaultsIn(_)
FaultsIn(steps) ==
    IF steps = << >> THEN 0
    ELSE Bad(Head(steps).exit = 1) + FaultsIn(Tail(steps))

\* the default prefix, line 240
Prefix == "/opt/openssl-<version>"

\* lines 248-262: the tools shutil.which is asked for, given the answers
BuildToolProbes(tools) ==
    IF platform = "windows"
    THEN {"perl", "cl"} \cup (IF "cl" \in tools THEN {} ELSE {"gcc"})
    ELSE {"make", "perl", "gcc"}
            \cup (IF "make" \in tools THEN {} ELSE {"gmake"})
            \cup (IF "gcc" \in tools THEN {} ELSE {"cc"})
            \cup (IF {"gcc", "cc"} \cap tools # {} THEN {} ELSE {"clang"})

\* lines 247-262: missing_tools
MissingTools(tools) ==
    IF platform = "windows"
    THEN (IF "perl" \notin tools THEN << "perl" >> ELSE << >>)
         \o (IF {"cl", "gcc"} \cap tools = {} THEN << "C compiler (cl or gcc)" >> ELSE << >>)
    ELSE (IF "make" \notin tools /\ "gmake" \notin tools THEN << "make" >> ELSE << >>)
         \o (IF "perl" \notin tools THEN << "perl" >> ELSE << >>)
         \o (IF {"gcc", "cc", "clang"} \cap tools = {} THEN << "C compiler" >> ELSE << >>)

\* the result a stage leaves: the steps it adds, and whether the pipeline
\* goes on
Stage(steps, ok) == [steps |-> steps, ok |-> ok]

\* lines 264-268
PreflightStage(missing) ==
    IF missing # << >>
    THEN Stage(<< Step("check-build-tools", 1, FALSE) >>, FALSE)
    ELSE Stage(<< >>, TRUE)

\* DownloadStage as it would be without the return of line 287
DownloadStageNoReturn(curlExit, urllibOK) ==
    IF curlExit = 0 THEN Stage(<< Step("curl", curlExit, TRUE) >>, TRUE)
    ELSE IF urllibOK
    THEN Stage(<< Step("curl", curlExit, TRUE), Step("urllib-download", 0, FALSE) >>, TRUE)
    ELSE Stage(<< Step("curl", curlExit, TRUE), Step("download-failed", 1, FALSE) >>, TRUE)

\* lines 270-287: curl, and urllib when curl did not exit with 0
DownloadStage(curlExit, urllibOK) ==
    IF curlExit = 0 THEN Stage(<< Step("curl", curlExit, TRUE) >>, TRUE)
    ELSE IF urllibOK
    THEN Stage(<< Step("curl", curlExit, TRUE), Step("urllib-download", 0, FALSE) >>, TRUE)
    ELSE Stage(<< Step("curl", curlExit, TRUE), Step("download-failed", 1, FALSE) >>, FALSE)

\* lines 289-294
ExtractStage(tarExit) == Stage(<< Step("tar xzf", tarExit, TRUE) >>, tarExit = 0)

\* lines 300-305
ConfigureCmd == IF platform \in {"aix", "hp-ux", "sunos"} THEN "./Configure" ELSE "./config"

\* ConfigureStage as it would be without the return of lines 316-317
ConfigureStageNoReturn(cfgExit, altExit) ==
    IF cfgExit = 0 THEN Stage(<< Step(ConfigureCmd, cfgExit, TRUE) >>, TRUE)
    ELSE Stage(<< Step(ConfigureCmd, cfgExit, TRUE),
                  Step("./Configure linux-x86_64", altExit, TRUE) >>,
               TRUE)

\* lines 307-317: the configuration, and the alternative when it did not
\* exit with 0
ConfigureStage(cfgExit, altExit) ==
    IF cfgExit = 0 THEN Stage(<< Step(ConfigureCmd, cfgExit, TRUE) >>, TRUE)
    ELSE Stage(<< Step(ConfigureCmd, cfgExit, TRUE),
                  Step("./Configure linux-x86_64", altExit, TRUE) >>,
               altExit = 0)

\* lines 320-322
MakeCmd(tools) == IF "gmake" \in tools THEN "gmake -j" ELSE "make -j"

\* lines 323-327
BuildStage(cmd, makeExit) == Stage(<< Step(cmd, makeExit, TRUE) >>, makeExit = 0)

\* TestStage as it would be if failing tests stopped the pipeline
TestStageFatal(testExit) == Stage(<< Step("make test", testExit, TRUE) >>, testExit = 0)

\* lines 330-333: the tests, which do not stop the pipeline
TestStage(testExit) == Stage(<< Step("make test", testExit, TRUE) >>, TRUE)

\* InstallStage as it would be without the return of lines 339-340
InstallStageNoReturn(installExit) ==
    Stage(<< Step("make install", installExit, TRUE) >>, TRUE)

\* lines 336-340
InstallStage(installExit) ==
    Stage(<< Step("make install", installExit, TRUE) >>, installExit = 0)

\* lines 343-356: the linker configuration
RegisterStage(confDir, writeOK, hasLdconfig, ldconfigExit) ==
    IF ~confDir THEN Stage(<< >>, TRUE)
    ELSE IF ~writeOK THEN Stage(<< Step("write-ldconf-failed", 1, FALSE) >>, TRUE)
    ELSE IF hasLdconfig
    THEN Stage(<< Step("write ld.so.conf.d", 0, FALSE), Step("ldconfig", ldconfigExit, TRUE) >>, TRUE)
    ELSE Stage(<< Step("write ld.so.conf.d", 0, FALSE) >>, TRUE)

\* the result when the pipeline returns before its end (268, 287, 294, 317,
\* 327, 340), and at its end (358-360)
EarlyResult(r) == r
FinalResult(r) == [r EXCEPT !.status = "ok", !.prefix = Prefix]

\* a stage has run: its steps are recorded and logged, and the pipeline goes
\* on to the stage after it or returns
StageDone(stage, extra, after) ==
    /\ Inflict(FaultsIn(stage.steps))
    /\ res' = EarlyResult([res EXCEPT !.steps = @ \o stage.steps])
    /\ trace' = trace \o extra \o StepEvents(stage.steps)
    /\ pc' = IF stage.ok THEN after ELSE "side_return"

\* the exit codes of a command of the tool: it does not start when the
\* tool is not there
ExitsOf(tool, tools) == IF tool \in tools THEN ExitCodes ELSE {NotStarted}

\* lines 239-268
SidePreflight ==
    /\ pc = "side_install"
    /\ \E found \in SUBSET ({"make", "gmake", "perl", "gcc", "cc", "clang", "cl"} \ Known) :
         LET asked == BuildToolProbes(present \cup found)
         IN /\ found \subseteq asked
            /\ Probe(asked, found)
    /\ res' = EarlyResult([status |-> "error",
                           steps |-> PreflightStage(MissingTools(present')).steps,
                           prefix |-> None])
    /\ trace' = trace \o << Mkdtemp >>
                      \o StepEvents(PreflightStage(MissingTools(present')).steps)
    /\ pc' = IF PreflightStage(MissingTools(present')).ok
             THEN "side_download" ELSE "side_return"
    /\ UNCHANGED << cli, app_link, deps, bak, pms, strategy, smk, ret, faults >>

\* lines 270-287
SideDownload ==
    /\ pc = "side_download"
    /\ \E curlExit \in ExitCodes, urllibOK \in BOOLEAN :
         /\ curlExit = 0 => urllibOK
         /\ StageDone(DownloadStage(curlExit, urllibOK),
                      << >>, "side_extract")
    /\ UNCHANGED << cli, app_link, which, deps, bak, pms, strategy, smk, ret >>

\* lines 289-296.  Both the tarball and the extracted directory match
\* 'openssl-*'; when next() gives the tarball, every later command fails to
\* start in it, which the exit codes of the later stages cover.
SideExtract ==
    /\ pc = "side_extract"
    /\ \E tarExit \in ExitCodes :
         StageDone(ExtractStage(tarExit), << >>, "side_configure")
    /\ UNCHANGED << cli, app_link, which, deps, bak, pms, strategy, smk, ret >>

\* lines 298-317
SideConfigure ==
    /\ pc = "side_configure"
    /\ \E cfgExit \in ExitCodes, altExit \in ExitCodes :
         /\ cfgExit = 0 => altExit = 0
         /\ StageDone(ConfigureStage(cfgExit, altExit), << >>, "side_make")
    /\ UNCHANGED << cli, app_link, which, deps, bak, pms, strategy, smk, ret >>

\* lines 319-327
SideBuild ==
    /\ pc = "side_make"
    /\ \E found \in SUBSET ({"gmake", "make"} \ Known) :
         LET tools == present \cup found
             asked == IF "gmake" \in tools THEN {"gmake"} ELSE {"gmake", "make"}
         IN /\ found \subseteq asked
            /\ Probe(asked, found)
            /\ \E makeExit \in ExitsOf(IF "gmake" \in tools THEN "gmake" ELSE "make", tools) :
                 StageDone(BuildStage(MakeCmd(tools), makeExit), << >>, "side_test")
    /\ UNCHANGED << cli, app_link, deps, bak, pms, strategy, smk, ret >>

\* lines 329-333
SideTest ==
    /\ pc = "side_test"
    /\ \E found \in SUBSET ({"make"} \ Known) :
         /\ Probe({"make"}, found)
         /\ \E testExit \in ExitsOf("make", present \cup found) :
              StageDone(TestStage(testExit), << >>, "side_setup")
    /\ UNCHANGED << cli, app_link, deps, bak, pms, strategy, smk, ret >>

\* lines 335-340
SideInstall ==
    /\ pc = "side_setup"
    /\ \E installExit \in ExitsOf("make", present) :
         StageDone(InstallStage(installExit), << >>, "side_register")
    /\ UNCHANGED << cli, app_link, which, deps, bak, pms, strategy, smk, ret >>

\* lines 342-360
SideRegister ==
    /\ pc = "side_register"
    /\ \E confDir \in BOOLEAN, writeOK \in BOOLEAN,
          found \in SUBSET ({"ldconfig"} \ Known), ldconfigExit \in ExitCodes :
         LET asked == IF confDir /\ writeOK THEN {"ldconfig"} ELSE {}
             stage == RegisterStage(confDir, writeOK, "ldconfig" \in present \cup found,
                                    ldconfigExit)
         IN /\ found \subseteq asked
            /\ Probe(asked, found)
            /\ ~confDir => writeOK
            /\ ~(confDir /\ writeOK /\ "ldconfig" \in present \cup found) => ldconfigExit = 0
            /\ Inflict(FaultsIn(stage.steps))
            /\ res' = FinalResult([res EXCEPT !.steps = @ \o stage.steps])
            /\ trace' = trace
                  \o (IF confDir THEN << FileWrite("/etc/ld.so.conf.d/openssl.conf") >> ELSE << >>)
                  \o StepEvents(stage.steps)
    /\ pc' = "side_return"
    /\ UNCHANGED << cli, app_link, deps, bak, pms, strategy, smk, ret >>

\* decide_and_execute, lines 620 and 625: the result is logged
SideInstallResult ==
    /\ pc = "side_return"
    /\ trace' = Append(trace, LogArgs("side-install", << res.status >>))
    /\ pc' = "post_cli"
    /\ UNCHANGED << cli, app_link, which, deps, bak, pms, strategy, res, smk, ret, faults >>

(***************************************************************************)
(* Smoke tests and the end of the run                                      *)
(***************************************************************************)
\* run_smoke_tests, lines 655-684: the checks attempted, oks telling of
\* each whether its command gave what the check asserts
SmokeChecks(hasOpenssl, sideBin, health, hasCurl, oks) ==
    (IF hasOpenssl THEN << [name |-> "openssl-version-path", ok |-> oks[1]] >> ELSE << >>)
    \o (IF sideBin THEN << [name |-> "openssl-version-side", ok |-> oks[2]] >> ELSE << >>)
    \o (IF health /\ hasOpenssl THEN << [name |-> "openssl-s_client", ok |-> oks[3]] >> ELSE << >>)
    \o (IF health /\ hasCurl THEN << [name |-> "http-health", ok |-> oks[4]] >> ELSE << >>)

\* lines 664-684: the commands, log entries and snapshots of the checks
SmokeEvents(hasOpenssl, sideBin, health, hasCurl) ==
    (IF hasOpenssl
     THEN RunLogged("openssl version -a") \o << Snap("post", "openssl-version-openssl.txt") >>
     ELSE << >>)
    \o (IF sideBin
        THEN RunLogged("/opt/openssl/bin/openssl version -a")
                \o << Snap("post", "openssl-version-openssl.txt") >>
        ELSE << >>)
    \o (IF health /\ hasOpenssl THEN RunLogged("openssl s_client") ELSE << >>)
    \o (IF health /\ hasCurl THEN RunLogged("curl --fail") ELSE << >>)

\* SmokeStatus as it would be without the test that a check was attempted
SmokeStatusVacuousPass(checks) ==
    IF \A i \in 1..Len(checks) : checks[i].ok THEN "pass" ELSE "fail"

\* lines 686-690
SmokeStatus(checks) ==
    IF (\A i \in 1..Len(checks) : checks[i].ok) /\ checks # << >>
    THEN "pass"
    ELSE IF checks # << >> THEN "fail" ELSE "no-checks"

\* run_smoke_tests, lines 639-692
RunSmokeTests ==
    /\ pc = "smoke"
    /\ \E found \in SUBSET ({"openssl", "curl"} \ Known), sideBin \in BOOLEAN,
          oks \in [1..4 -> BOOLEAN] :
         LET asked == IF health_url THEN {"openssl", "curl"} ELSE {"openssl"}
             hasOpenssl == "openssl" \in present \cup found
             hasCurl == "curl" \in present \cup found
             checks == SmokeChecks(hasOpenssl, sideBin, health_url, hasCurl, oks)
         IN /\ found \subseteq asked
            /\ Probe(asked, found)
            \* the answer of a check that is not attempted is no input
            /\ ~hasOpenssl => oks[1]
            /\ ~sideBin => oks[2]
            /\ ~(health_url /\ hasOpenssl) => oks[3]
            /\ ~(health_url /\ hasCurl) => oks[4]
            /\ Inflict(Cardinality({i \in 1..4 : ~oks[i]}))
            /\ side_install_bin' = sideBin
            /\ smoke' = [status |-> SmokeStatus(checks), checks |-> checks]
            /\ trace' = trace \o SmokeEvents(hasOpenssl, sideBin, health_url, hasCurl)
                              \o << Log("completed") >>
    /\ pc' = "finish"
    /\ UNCHANGED << cli, app_link, deps, bak, pms, strategy, res, ret >>

\* Success as it would be if only a failed check counted against the run
SuccessUnlessFail(verdict) == verdict.status # "fail"

\* decide_and_execute, line 634
Success(verdict) == verdict.status = "pass"

\* decide_and_execute, lines 633-636
Finish ==
    /\ pc = "finish"
    /\ trace' = trace \o GenerateReadme
    /\ ret' = Returned("done", Success(smoke))
    /\ pc' = "returned"
    /\ UNCHANGED << cli, app_link, which, deps, bak, pms, strategy, res, smk, faults >>

Next ==
    \/ Start
    \/ DetectOpensslCli
    \/ DetectPackageManagers
    \/ DetectApplicationLinking
    \/ IdentifyLibraries
    \/ ResolveNextLibrary
    \/ ConfirmAndUpgradeDependencies
    \/ PrepareBackup
    \/ ChooseStrategy
    \/ DryRunHandling
    \/ PerformUpgrade
    \/ SidePreflight
    \/ SideDownload
    \/ SideExtract
    \/ SideConfigure
    \/ SideBuild
    \/ SideTest
    \/ SideInstall
    \/ SideRegister
    \/ SideInstallResult
    \/ RunSmokeTests
    \/ Finish

\* whole runs of decide_and_execute
Spec == Init /\ [][Next]_vars

\* dry runs: detection, backup, strategy, report
NextStrategy ==
    \/ Start
    \/ DetectOpensslCli
    \/ DetectPackageManagers
    \/ PrepareBackup
    \/ ChooseStrategy
    \/ DryRunHandling
SpecStrategy == InitStrategy /\ [][NextStrategy]_vars

\* side_install_from_source alone
NextSide ==
    \/ SidePreflight
    \/ SideDownload
    \/ SideExtract
    \/ SideConfigure
    \/ SideBuild
    \/ SideTest
    \/ SideInstall
    \/ SideRegister
SpecSide == InitSide /\ [][NextSide]_vars

\* detect_application_linking alone
NextLinking == DetectApplicationLinking
SpecLinking == InitLinking /\ [][NextLinking]_vars

\* upgrade_application_dependencies alone
NextDeps ==
    \/ IdentifyLibraries
    \/ ResolveNextLibrary
    \/ ConfirmAndUpgradeDependencies
SpecDeps == InitDeps /\ [][NextDeps]_vars

\* prepare_backup alone, called up to MaxBackups times on the same backup
\* directory
PrepareBackupAgain ==
    /\ pc = "strategy"
    /\ Cardinality({i \in 1..Len(trace) :
                       trace[i].c \in {"created tarball", "tar-failed"}}) < MaxBackups
    /\ pc' = "backup"
    /\ UNCHANGED << cli, app_link, which, deps, bak, trace, pms, strategy, res, smk, ret, faults >>

NextBackup ==
    \/ PrepareBackup
    \/ PrepareBackupAgain
SpecBackup == InitBackup /\ [][NextBackup]_vars

\* run_smoke_tests alone
NextSmoke == RunSmokeTests
SpecSmoke == InitSmoke /\ [][NextSmoke]_vars

(***************************************************************************)
(* Properties                                                              *)
(***************************************************************************)
\* the commands that change the host: the package upgrades of
\* upgrade_application_dependencies, the package manager commands of the
\* upgrade stage, and the stages of the source build
DependencyUpgradeCmds ==
    {"apt install --only-upgrade", "yum update", "dnf update", "apk add --upgrade",
     "brew upgrade", "choco upgrade", "pkg update"}
PrimaryUpgradeCmds ==
    {"apt update", "apt install --only-upgrade openssl libssl-dev",
     "dnf makecache", "dnf update openssl", "yum makecache", "yum update openssl",
     "apk update", "apk add --upgrade openssl", "brew update", "brew upgrade openssl"}
BuildCmds ==
    {"curl", "tar xzf", "./config", "./Configure", "./Configure linux-x86_64",
     "make -j", "gmake -j", "make test", "make install", "ldconfig"}
MutatingCmds == DependencyUpgradeCmds \cup PrimaryUpgradeCmds \cup BuildCmds

\* the places of the trace where a mutating command is invoked, where
\* prepare_backup ends (its archive entry is the last thing it does), where
\* the operator declines, where the report is written
MutationsAt == {i \in 1..Len(trace) : trace[i].k = "run" /\ trace[i].c \in MutatingCmds}
BackupEndsAt ==
    {i \in 1..Len(trace) : trace[i].c \in {"created tarball", "tar-failed"}}
DeclinesAt == {i \in 1..Len(trace) : trace[i] = Ask(FALSE)}
ReportsAt == {i \in 1..Len(trace) : trace[i] = Readme}

\* C1: no mutating external command (a package upgrade, the dependency
\* upgrades included, or a step of the source build) is invoked before
\* prepare_backup has completed.
C1_BackupBeforeMutation ==
    \A i \in MutationsAt : \E j \in BackupEndsAt : j < i
\* a dependency upgrade has been invoked and prepare_backup has not begun
C1_UpgradeAheadOfBackup ==
    /\ pc = "backup"
    /\ \E i \in MutationsAt : trace[i].c \in DependencyUpgradeCmds
    /\ BackupEndsAt = {}

\* C2: with --dry-run the run invokes no build, install or package upgrade
\* command, and when it returns its status is 'dry-run' and the report has
\* been generated.
C2_DryRunMutatesNothing ==
    dry_run =>
        /\ MutationsAt = {}
        /\ pc = "returned" => ret.status = "dry-run" /\ ReportsAt # {}
\* a dry run has returned after a dependency upgrade
C2_DryRunUpgraded ==
    /\ dry_run
    /\ pc = "returned"
    /\ ret.status = "dry-run"
    /\ \E i \in MutationsAt : trace[i].c \in DependencyUpgradeCmds

\* C3: once a confirmation prompt is declined, at the dependency gate or at
\* the upgrade gate, no package manager or build command is invoked any
\* more and the run returns with status 'aborted'.
C3_DeclineAborts ==
    \A i \in DeclinesAt :
        /\ \A j \in MutationsAt : j < i
        /\ pc = "returned" => ret.status = "aborted"
\* the dependency upgrades were declined, the upgrade itself was accepted,
\* its commands ran and the run is 'done'
C3_DeclinedThenUpgraded ==
    /\ ~force
    /\ pc = "returned"
    /\ ret.status = "done"
    /\ \E i \in DeclinesAt : \E j \in MutationsAt : i < j

\* C4: every run of decide_and_execute that returns, whatever its status,
\* has generated the report before.
C4_ReportBeforeReturn ==
    pc = "returned" => ReportsAt # {}
\* an aborted run has returned without a report
C4_AbortedWithoutReport ==
    /\ pc = "returned"
    /\ ret.status = "aborted"
    /\ ReportsAt = {}

\* C5: the strategy is 'package-manager' if and only if a first-class
\* manager is among the detected ones, and 'side-install' otherwise: a
\* function of the detected set alone.
DetectedSet == {pms[i] : i \in 1..Len(pms)}
C5_StrategyByFirstClass ==
    strategy # None =>
        /\ strategy = "package-manager" <=> DetectedSet \cap FirstClassPMs # {}
        /\ strategy = "side-install" <=> DetectedSet \cap FirstClassPMs = {}
\* managers are detected, none of them first-class, and the strategy is chosen
C5_Witness ==
    /\ strategy = "side-install"
    /\ DetectedSet # {}

\* C6: run_smoke_tests gives 'no-checks' when no openssl binary is found
\* (on the search path or at the side-install prefix) and no health target
\* is given; 'pass' if and only if a check was attempted and every attempted
\* check passed; 'fail' when an attempted check failed.
C6_SmokeVerdict ==
    smoke.status # None =>
        LET n == Len(smoke.checks)
            allOk == \A i \in 1..n : smoke.checks[i].ok
        IN /\ ("openssl" \in absent /\ side_install_bin = FALSE /\ ~health_url)
                 => smoke.status = "no-checks"
           /\ smoke.status = "pass" <=> (n > 0 /\ allOk)
           /\ ~allOk => smoke.status = "fail"
           /\ smoke.status \in {"pass", "fail", "no-checks"}
\* no binary, no health target: nothing could be checked
C6_Witness ==
    /\ smoke.status # None
    /\ "openssl" \in absent /\ side_install_bin = FALSE /\ ~health_url
    /\ smoke.status = "no-checks"

\* C7: the value decide_and_execute returns has status 'dry-run', 'aborted'
\* or 'done', and with 'done' its success flag is true exactly when the
\* verdict of the smoke tests is 'pass'.
C7_ReturnedValue ==
    pc = "returned" =>
        /\ ret.status \in {"dry-run", "aborted", "done"}
        /\ ret.status = "done" =>
              /\ ret.success \in BOOLEAN
              /\ ret.success <=> smoke.status = "pass"
\* a run that ends 'done' with nothing checked is no success
C7_Witness ==
    /\ pc = "returned"
    /\ ret.status = "done"
    /\ smoke.status = "no-checks"
    /\ ret.success = FALSE

\* the steps of the result with the command c
StepsOf(c) == {i \in 1..Len(res.steps) : res.steps[i].cmd = c}
AfterConfigureCmds ==
    {"make -j", "gmake -j", "make test", "make install", "write ld.so.conf.d",
     "write-ldconf-failed", "ldconfig"}

\* C8: when the primary configure exits non-zero the fallback configure is
\* attempted exactly once; when the fallback fails too, no build, test,
\* install or linker registration runs and the status is 'error'; when the
\* primary configure succeeds the fallback is never run.
C8_ConfigureFallback ==
    res.status # None =>
        \A i \in StepsOf(ConfigureCmd) :
            LET alts == StepsOf("./Configure linux-x86_64")
            IN /\ Cardinality(StepsOf(ConfigureCmd)) = 1
               /\ res.steps[i].exit = 0 => alts = {}
               /\ res.steps[i].exit # 0 =>
                     /\ alts = {i + 1}
                     /\ res.steps[i + 1].exit # 0 =>
                           /\ \A j \in 1..Len(res.steps) :
                                 res.steps[j].cmd \notin AfterConfigureCmds
                           /\ res.status = "error"
                           /\ pc = "side_return"
\* both configure invocations failed and the pipeline returned
C8_Witness ==
    /\ res.status # None
    /\ pc = "side_return"
    /\ \E i \in StepsOf(ConfigureCmd) :
          /\ res.steps[i].exit # 0
          /\ i + 1 = Len(res.steps)
          /\ res.steps[i + 1].cmd = "./Configure linux-x86_64"
          /\ res.steps[i + 1].exit # 0

\* the step i of the result is a mandatory stage that failed for good: the
\* preflight, the download by both mechanisms, extract, the fallback
\* configure, build, install
FailedForGood(i) ==
    /\ res.steps[i].exit # 0
    /\ res.steps[i].cmd \in {"check-build-tools", "download-failed", "tar xzf",
                             "./Configure linux-x86_64", "make -j", "gmake -j",
                             "make install"}
ExitedZero(c) == \E i \in StepsOf(c) : res.steps[i].exit = 0

\* C9: the status is 'ok' only if the preflight passed and download (by
\* curl or by urllib), extract, configure (primary or fallback), build and
\* install each ended with exit code 0; a failure of one of these stages
\* gives status 'error' and no later stage is run.
C9_OkOnlyIfEveryStage ==
    res.status # None =>
        /\ res.status = "ok" =>
              /\ StepsOf("check-build-tools") = {}
              /\ ExitedZero("curl") \/ ExitedZero("urllib-download")
              /\ ExitedZero("tar xzf")
              /\ ExitedZero(ConfigureCmd) \/ ExitedZero("./Configure linux-x86_64")
              /\ ExitedZero("make -j") \/ ExitedZero("gmake -j")
              /\ ExitedZero("make install")
        /\ \A i \in 1..Len(res.steps) :
              FailedForGood(i) =>
                 /\ i = Len(res.steps)
                 /\ res.status = "error"
                 /\ pc = "side_return"
\* the pipeline went through with the download by urllib
C9_Witness ==
    /\ res.status # None
    /\ res.status = "ok"
    /\ ExitedZero("urllib-download")
    /\ pc = "side_return"

\* C10: every result side_install_from_source returns, on success and on
\* every failure path, records the install prefix in 'prefix'.
C10_PrefixAlwaysRecorded ==
    pc = "side_return" => res.prefix # None
\* the preflight found a build tool missing: the result has no prefix
C10_ErrorWithoutPrefix ==
    /\ pc = "side_return"
    /\ res.status = "error"
    /\ StepsOf("check-build-tools") # {}
    /\ res.prefix = None

\* the places of the trace where the agent touches the disk outside its
\* audit log (a directory made, a file written) or the network
DiskAt == {i \in 1..Len(trace) : trace[i].k = "disk"}
NetworkAt ==
    {i \in 1..Len(trace) : trace[i] = Urlopen \/ trace[i] = Run("curl")}

\* C11: when the preflight of side_install_from_source finds a build tool
\* missing, the pipeline returns status 'error' with the missing-tools step
\* and has made no file or directory (the temporary working directory
\* included) and has not used the network.
C11_PreflightTouchesNothing ==
    (pc = "side_return" /\ StepsOf("check-build-tools") # {}) =>
        /\ res.status = "error"
        /\ NetworkAt = {}
        /\ DiskAt = {}
\* the preflight failed and the working directory had been made before it
C11_WorkdirBeforePreflight ==
    /\ pc = "side_return"
    /\ StepsOf("check-build-tools") # {}
    /\ \E i \in DiskAt : trace[i] = Mkdtemp

\* the places of the trace where a file is copied to the name dest of the
\* backup directory
CopiesAt(dest) == {i \in 1..Len(trace) : trace[i] = Copy(dest)}
BackupNames == {"openssl_binary", "lib_libssl.so.3", "lib_libcrypto.so.3"}

\* C12: prepare_backup called again on the same backup directory copies no
\* destination name ('openssl_binary' or 'lib_<name>') and reports none as
\* saved a second time.
C12_CopiedAtMostOnce ==
    \A dest \in BackupNames : Cardinality(CopiesAt(dest)) <= 1
\* the second call has copied the openssl binary again and reports it saved
C12_BinaryCopiedAgain ==
    /\ pc = "strategy"
    /\ Cardinality(CopiesAt("openssl_binary")) = 2
    /\ saved[1] = "openssl_binary"

\* C13: a copy that fails in prepare_backup, of the openssl binary or of a
\* library file, keeps neither the other library copies from being
\* attempted nor the archive step from running, and prepare_backup returns
\* the saved paths: a call of prepare_backup always ends with its archive
\* entry, every library file whose copy does not fail in the backup
\* directory.
C13_EveryCopyBestEffort ==
    pc # "backup" =>
        /\ pc = "strategy"
        /\ BackupEndsAt # {}
        /\ saved # None
\* the copy of the openssl binary raised: neither library copies nor
\* archive, and nothing returned
C13_BinaryCopyRaises ==
    /\ pc = "crashed"
    /\ "openssl" \in present
    /\ globbed # << >>
    /\ backup_dir = {}
    /\ BackupEndsAt = {}
    /\ saved = None

\* the places of the trace where run_cmd is called
RunsAt == {i \in 1..Len(trace) : trace[i].k = "run"}

\* C14: every result of run_cmd, those of resolve_package_owner and of the
\* linkage listing of upgrade_application_dependencies included, is handed
\* to log_step exactly once and in the order produced: the call of run_cmd
\* is followed by the log entry of its command, before any other call.
C14_EveryResultLogged ==
    \A i \in RunsAt :
        /\ i < Len(trace)
        /\ trace[i + 1] = LogArgs(trace[i].c, trace[i].a)
\* ldd was run by detect_application_linking and again for the linkage
\* listing of the dependencies: only the first result was logged
C14_ListingNeverLogged ==
    /\ app_path = ExistingApp
    /\ platform = "linux"
    /\ "ldd" \in present
    /\ Cardinality({i \in RunsAt : trace[i] = Run("ldd")}) = 2
    /\ Cardinality({j \in 1..Len(trace) : trace[j] = Log("ldd")}) = 1

\* the call i of resolve_package_owner had no database hit (no lookup run,
\* or one that did not name the owner) and its path matches no heuristic of
\* the platform
NoHitNoMatch(i) ==
    /\ ~owners[i].ran \/ owners[i].lookup # Owned
    /\ platform = "darwin" => IndexOf(owners[i].lib.parts, "Cellar") = 0
    /\ platform = "windows" => IndexOf(owners[i].lib.parts, "chocolatey") = 0

\* C15: on every platform and for every outcome of the lookup (tool not
\* there, an exit code other than 0, no output), resolve_package_owner
\* returns None for a path with no database hit and no heuristic match.
C15_AbsentWithoutHit ==
    \A i \in 1..Len(owners) : NoHitNoMatch(i) => owners[i].owner = None
\* rpm -qf gave exit code 0 and no output: the owner returned is the empty
\* string
C15_EmptyOwnerFromRpm ==
    /\ platform = "linux"
    /\ "dpkg" \in absent /\ "rpm" \in present
    /\ \E i \in 1..Len(owners) :
          /\ owners[i].lookup = [exit |-> 0, stdout |-> ""]
          /\ owners[i].owner = ""

\* the places of the trace where a dependency upgrade command is invoked
DepUpgradesAt ==
    {i \in 1..Len(trace) : trace[i].k = "run" /\ trace[i].c \in DependencyUpgradeCmds}

\* C16: the package list given to a dependency upgrade command names no
\* package twice and no package whose name contains 'openssl', 'libssl' or
\* 'libcrypto', whatever the owners resolved.
C16_NoTargetNoDuplicate ==
    \A i \in DepUpgradesAt :
        LET given == trace[i].a
        IN /\ \A m, n \in 1..Len(given) : given[m] = given[n] => m = n
           /\ \A m \in 1..Len(given) : \A x \in OpenSSLTerms :
                 ~Occurs(Chars(x), Chars(given[m]))
\* two libraries, one owned by libssl3 and one by zlib1g: only zlib1g is
\* given to the upgrade command
C16_Witness ==
    /\ packages = {"libssl3", "zlib1g"}
    /\ \E i \in DepUpgradesAt : trace[i].a = << "zlib1g" >>

\* the places of the trace where log_snapshot_file writes a file
SnapshotsAt == {i \in 1..Len(trace) : trace[i].k = "snap"}

\* C17: when the application is not there, detect_application_linking
\* returns an entry with exit code 254, runs no command and writes no
\* snapshot file, on every platform.
C17_MissingAppNotInspected ==
    (app_path = MissingApp /\ app_link # << >>) =>
        /\ app_link[1].exit = NotFound
        /\ RunsAt = {}
        /\ SnapshotsAt = {}
\* the application is missing on a platform whose inspection asks for no
\* tool: not found is returned, nothing is run
C17_Witness ==
    /\ app_path = MissingApp
    /\ platform = "windows"
    /\ app_link = << [cmd |-> "app not found", exit |-> NotFound] >>
    /\ trace = << Log("app not found") >>

\* the places of the trace where side_install_from_source begins (its first
\* effect is its working directory), and where a package manager command
\* of the upgrade stage is invoked
SourceBuildsAt == {i \in 1..Len(trace) : trace[i] = Mkdtemp}
PrimaryUpgradesAt ==
    {i \in 1..Len(trace) : trace[i].k = "run" /\ trace[i].c \in PrimaryUpgradeCmds}

\* C18: the upgrade stage does what the recorded strategy says: the source
\* build runs only when the strategy is 'side-install', and a run that went
\* through the upgrade stage with the strategy 'package-manager' has run
\* package manager commands.
C18_UpgradeFollowsStrategy ==
    /\ SourceBuildsAt # {} => strategy = "side-install"
    /\ (strategy = "package-manager" /\ ret.status = "done") => PrimaryUpgradesAt # {}
\* zypper is the first manager detected: the strategy recorded is
\* 'package-manager', the source build is what ran
C18_SourceBuildUnderPackageManager ==
    /\ strategy = "package-manager"
    /\ pms[1] = "zypper"
    /\ ret.status = "done"
    /\ SourceBuildsAt # {}
    /\ PrimaryUpgradesAt = {}

\* the places of the trace where urllib is asked for the tarball
UrlopensAt == {i \in 1..Len(trace) : trace[i] = Urlopen}

\* C19: when curl fails the download by urllib is attempted exactly once;
\* when it succeeds the pipeline goes on to extract, when it fails too the
\* pipeline returns status 'error' and neither extract nor configure, build,
\* test or install runs.  When curl succeeds urllib is not used.
C19_DownloadFallback ==
    \A i \in StepsOf("curl") :
        /\ res.steps[i].exit = 0 => UrlopensAt = {}
        /\ res.steps[i].exit # 0 =>
              /\ Cardinality(UrlopensAt) = 1
              /\ StepsOf("urllib-download") \cup StepsOf("download-failed") = {i + 1}
              /\ res.steps[i + 1].cmd = "urllib-download" =>
                    pc = "side_extract" \/ StepsOf("tar xzf") = {i + 2}
              /\ res.steps[i + 1].cmd = "download-failed" =>
                    /\ pc = "side_return"
                    /\ res.status = "error"
                    /\ Len(res.steps) = i + 1
                    /\ \A j \in RunsAt : trace[j] = Run("curl")
\* curl and urllib both failed: the pipeline has returned
C19_Witness ==
    /\ pc = "side_return"
    /\ res.status = "error"
    /\ \E i \in StepsOf("curl") :
          /\ res.steps[i].exit # 0
          /\ res.steps[i + 1].cmd = "download-failed"
    /\ Cardinality(UrlopensAt) = 1

\* C20: the tests do not stop the pipeline: once the build has exited with
\* 0 the test step is recorded and install is run whatever the tests' exit
\* code, and failing tests alone do not make the status 'error'.
C20_TestsNotFatal ==
    \A i \in StepsOf("make -j") \cup StepsOf("gmake -j") :
        res.steps[i].exit = 0 =>
            \/ pc = "side_test"
            \/ /\ StepsOf("make test") = {i + 1}
               /\ \/ pc = "side_setup"
                  \/ /\ StepsOf("make install") = {i + 2}
                     /\ (pc = "side_return" /\ res.steps[i + 2].exit = 0)
                           => res.status = "ok"
\* the tests failed, install succeeded, the result is 'ok'
C20_Witness ==
    /\ pc = "side_return"
    /\ res.status = "ok"
    /\ \E i \in StepsOf("make test") :
          /\ res.steps[i].exit # 0
          /\ res.steps[i + 1].cmd = "make install"
          /\ res.steps[i + 1].exit = 0

\* the copies of the last call of prepare_backup: the names copied after
\* the archive entry before the last
LastCopies ==
    LET before == {j \in BackupEndsAt : j < Len(trace)}
        from == IF before = {} THEN 0
                ELSE CHOOSE j \in before : \A m \in before : m <= j
    IN {trace[i].c : i \in {n \in (from + 1)..Len(trace) : trace[n].k = "copy"}}

\* C21: in prepare_backup the archive step comes after every copy attempt;
\* an archive that fails is logged with an exit code other than 0, and the
\* copies made stay in the backup directory and are the saved paths
\* returned.
C21_ArchiveAfterCopies ==
    pc = "strategy" =>
        /\ Len(trace) \in BackupEndsAt
        /\ trace[Len(trace)].c = "tar-failed" =>
              /\ trace[Len(trace)].exit # 0
              /\ {saved[i] : i \in 1..Len(saved)} = LastCopies
              /\ LastCopies \subseteq backup_dir
\* the archive failed after the binary and a library were copied
C21_Witness ==
    /\ pc = "strategy"
    /\ trace[Len(trace)] = LogExit("tar-failed", 1)
    /\ saved = << "openssl_binary", "lib_libssl.so.3" >>
    /\ {"openssl_binary", "lib_libssl.so.3"} \subseteq backup_dir

\* the copies of library files in the backup directory
LibCopies == backup_dir \cap {"lib_" \o LibFiles[i].name : i \in 1..Len(LibFiles)}

\* C22: after prepare_backup every file it copied into the backup directory,
\* the openssl binary and each library copy, has its checksum sidecar
\* '<name>.sha256' in that directory.
C22_EveryCopyHasChecksum ==
    pc = "strategy" =>
        \A i \in 1..Len(saved) : (saved[i] \o ".sha256") \in backup_dir
\* a library was copied beside the binary: only the binary has a sidecar
C22_LibraryWithoutChecksum ==
    /\ pc = "strategy"
    /\ saved = << "openssl_binary", "lib_libcrypto.so.3" >>
    /\ "openssl_binary.sha256" \in backup_dir
    /\ "lib_libcrypto.so.3" \in backup_dir
    /\ "lib_libcrypto.so.3.sha256" \notin backup_dir

\* C28: after prepare_backup on a fresh backup directory every matched
\* library file whose copy did not fail has a backup copy of its own: when
\* nothing failed, there are as many library copies as matched files.
C28_OneCopyPerMatchedFile ==
    (pc = "strategy" /\ faults = 0 /\ Cardinality(BackupEndsAt) = 1) =>
        Cardinality(LibCopies) = Len(globbed)
\* two matched files of the same name in different directories, nothing
\* failed, and the backup directory holds one copy for both
C28_SameNameOneCopy ==
    /\ pc = "strategy"
    /\ faults = 0
    /\ Cardinality(BackupEndsAt) = 1
    /\ globbed = << LibFiles[1], LibFiles[2] >>
    /\ LibFiles[1].name = LibFiles[2].name
    /\ LibFiles[1].path # LibFiles[2].path
    /\ LibCopies = {"lib_libssl.so.3"}
    /\ saved = << "lib_libssl.so.3" >>

\* the places of the trace where rpm -qf is run
RpmQueriesAt == {i \in 1..Len(trace) : trace[i] = Run("rpm -qf")}

\* C23: on linux, whenever the lookup with dpkg does not succeed and rpm is
\* available, resolve_package_owner queries rpm: after a library whose dpkg
\* lookup gave no owner, rpm -qf has been run.
C23_RpmAfterFailedDpkg ==
    (platform = "linux" /\ "rpm" \in present) =>
        \A i \in 1..Len(owners) :
            (owners[i].ran /\ owners[i].owner = None) => RpmQueriesAt # {}
\* dpkg and rpm are both installed, dpkg -S has exited with a code other
\* than 0, and rpm was not queried
C23_RpmNeverQueried ==
    /\ platform = "linux"
    /\ {"dpkg", "rpm"} \subseteq present
    /\ \E i \in 1..Len(owners) :
          /\ owners[i].ran
          /\ owners[i].lookup.exit = 1
          /\ owners[i].owner = None
    /\ \E i \in 1..Len(trace) : trace[i] = Run("dpkg -S")
    /\ RpmQueriesAt = {}

\* the names of the checks run_smoke_tests attempted
SmokeCheckNames == {smoke.checks[i].name : i \in 1..Len(smoke.checks)}

\* C24: whenever a health target is given, run_smoke_tests attempts both the
\* TLS handshake check and the HTTP(S) fetch check, whatever tools the host
\* has, and so its verdict is never 'no-checks'.
C24_HealthTargetChecked ==
    (smoke.status # None /\ health_url) =>
        /\ {"openssl-s_client", "http-health"} \subseteq SmokeCheckNames
        /\ smoke.status # "no-checks"
\* a health target on a host with neither openssl nor curl: no check is
\* attempted
C24_HealthTargetNoChecks ==
    /\ pc = "finish"
    /\ health_url
    /\ {"openssl", "curl"} \subseteq absent
    /\ smoke.checks = << >>
    /\ smoke.status = "no-checks"
    /\ \A i \in 1..Len(trace) : trace[i].k # "run"

\* the places of the trace where confirm_upgrade asked the operator
AsksAt == {i \in 1..Len(trace) : trace[i].k = "ask"}

\* C25: upgrade_application_dependencies invokes a package upgrade command
\* only for a filtered package list that is not empty and after
\* confirm_upgrade returned true (--force, or the answer "y" just before);
\* when the filtered list is empty it returns to its caller having asked
\* nothing and invoked no upgrade command.
C25_UpgradeOnlyIfConfirmed ==
    /\ \A i \in DepUpgradesAt :
          /\ trace[i].a = PackagesToUpgrade(packages)
          /\ trace[i].a # << >>
          /\ force \/ (i > 1 /\ trace[i - 1] = Ask(TRUE))
    /\ (pc \notin {"deps", "deps_resolve"} /\ PackagesToUpgrade(packages) = << >>) =>
          /\ pc = "backup"
          /\ AsksAt = {}
          /\ DepUpgradesAt = {}
\* the operator was asked, answered "y", and the upgrade command was invoked
\* with the one package that is left after the filter
C25_Witness ==
    /\ pc = "backup"
    /\ ~force
    /\ packages = {"libssl3", "zlib1g"}
    /\ \E i \in DepUpgradesAt :
          /\ trace[i - 1] = Ask(TRUE)
          /\ trace[i].a = << "zlib1g" >>

\* the platform families the agent has code for
SupportedFamilies == {"linux", "darwin", "windows", "aix", "hp-ux", "sunos"}

\* C26: for every host, the unsupported ones included, the platform family
\* resolved at construction is one of the six supported families.
C26_PlatformIsSupportedFamily == platform \in SupportedFamilies
\* a whole run on a FreeBSD host: the platform is 'freebsd' from the
\* construction to the return
C26_UnsupportedFamilyKept ==
    /\ platform = "freebsd"
    /\ platform = NormalizePlatform("freebsd", FALSE)
    /\ pc = "returned"

\* the snapshot files written under pre/, and the places of the trace where
\* one of them is written
PreSnapshots ==
    {Snap("pre", f) : f \in {"openssl-version.txt", "ldd-app.txt", "otool-app.txt",
                             "dump-app.txt", "chatr-app.txt", "windows-app-info.txt"}}
PreSnapshotsAt == {i \in SnapshotsAt : trace[i] \in PreSnapshots}
\* the places of the trace where the upgrade stage acts
UpgradeStageAt == PrimaryUpgradesAt \cup SourceBuildsAt

\* C27: no snapshot file under pre/ is written once the upgrade stage has
\* started: the detection after the upgrade (the second calls of
\* detect_openssl_cli and detect_application_linking) writes under post/
\* only.
C27_PreSnapshotsBeforeUpgrade ==
    \A i \in PreSnapshotsAt : \A j \in UpgradeStageAt : i < j
\* pre/openssl-version.txt and pre/ldd-app.txt are written before the
\* upgrade command and written again after it
C27_PreSnapshotOverwritten ==
    \E j \in PrimaryUpgradesAt :
        /\ \E i \in 1..(j - 1) : trace[i] = Snap("pre", "openssl-version.txt")
        /\ \E i \in 1..(j - 1) : trace[i] = Snap("pre", "ldd-app.txt")
        /\ \E i \in (j + 1)..Len(trace) : trace[i] = Snap("pre", "openssl-version.txt")
        /\ \E i \in (j + 1)..Len(trace) : trace[i] = Snap("pre", "ldd-app.txt")

\* the executable a step of the build, the tests or the installation invokes
MakeToolOf(cmd) == IF cmd = "gmake -j" THEN "gmake" ELSE "make"
\* the steps of the source build that invoke a make-equivalent tool
MakeStepsAt ==
    {i \in 1..Len(res.steps) :
        res.steps[i].cmd \in {"make -j", "gmake -j", "make test", "make install"}}

\* C29: on a POSIX-like host where the preflight passes, the build, the
\* tests and the installation each invoke a make-equivalent executable that
\* is on the host: none of them fails to start.
C29_MakeToolPresent ==
    platform \in PosixFamilies =>
        \A i \in MakeStepsAt :
            /\ MakeToolOf(res.steps[i].cmd) \in present
            /\ res.steps[i].exit # NotStarted
\* a host with gmake and no make: the preflight passed, gmake built, and
\* 'make install' did not start, so the pipeline ended with status 'error'
C29_InstallWithoutMake ==
    /\ platform \in PosixFamilies
    /\ "gmake" \in present /\ "make" \in absent
    /\ MissingTools(present) = << >>
    /\ \E i \in MakeStepsAt : res.steps[i] = Step("gmake -j", 0, TRUE)
    /\ \E i \in MakeStepsAt : res.steps[i] = Step("make install", NotStarted, TRUE)
    /\ res.status = "error"
    /\ pc = "side_return"
====
